---- MODULE Spec2Model ----
(***************************************************************************)
(* Model of mautrix_telegram.puppet.Puppet: the puppet identity cache      *)
(* (by_tgid / by_custom_mxid and the lookup class methods) and the         *)
(* attribute reconciliation methods (update_info, update_displayname,      *)
(* update_avatar).                                                         *)
(*                                                                         *)
(* Strings are sequences of one-character strings; Python's None for a     *)
(* string is the one-element sequence NoneStr, for an id it is NoTgid, for *)
(* an instance it is NoInst.                                               *)
(***************************************************************************)
EXTENDS Integers, Sequences, FiniteSets, TLC

\* Number of concurrent asyncio tasks, each running one lookup / update call.
NumTasks == 3

Tasks == 1..NumTasks
TgIds == {1, 2}
NoTgid == 0
NoInst == 0
NoneStr == <<"None">>
NoMxid == ""
NoRow == [exists |-> FALSE]

\* The custom mxid a stored record of account id may carry (unique per record).
MxidOf(id) == IF id = 1 THEN "@a:hs" ELSE "@b:hs"
Mxids == {MxidOf(id) : id \in TgIds}

\* Python truthiness of an Optional[str].
Truthy(s) == s /= NoneStr /\ s /= <<>>

LowerChar(c) == IF c = "B" THEN "b" ELSE c
\* str.lower()
Lower(s) == [i \in 1..Len(s) |-> LowerChar(s[i])]

\* Names used by the stored rows and by the lookups of the cache model.
CacheUsernames == {<<"B">>, <<"b">>}
CacheDisplaynames == {<<"X">>}

VARIABLES
    \* ---- identity cache ----
    store,           \* durable puppet table: account id -> row or NoRow
    store0,          \* the table as it was at process start
    heap,            \* every Puppet instance ever constructed, by identity
    by_tgid,         \* Puppet.by_tgid: account id -> instance or NoInst
    by_tgid_keys,    \* insertion order of by_tgid's keys
    by_custom_mxid,  \* Puppet.by_custom_mxid: mxid -> instance or NoInst
    lock_tgid,       \* keys of _async_get_locks held by get_by_tgid calls
    lock_mxid,       \* keys of _async_get_locks held by get_by_custom_mxid calls
    tasks,           \* per task: the call it runs and where it is suspended
    inserts,         \* account id -> number of store inserts issued
    \* ---- attribute reconciliation of one puppet ----
    puppet,              \* the fields of self
    db_row,              \* the puppet's durable row
    matrix_displayname,  \* the display name the presentation layer holds
    allow_avatar_remove, \* config["bridge.allow_avatar_remove"]
    call                 \* the last call made on the puppet, and what it did

cacheVars == <<store, store0, heap, by_tgid, by_tgid_keys, by_custom_mxid,
               lock_tgid, lock_mxid, tasks, inserts>>

updateVars == <<puppet, db_row, matrix_displayname, allow_avatar_remove, call>>

vars == <<cacheVars, updateVars>>

\* ------------------------------------------------------------------------
\* Rows and instances

Row(u, d, m) == [exists |-> TRUE, username |-> u, displayname |-> d, custom_mxid |-> m]

\* Field values of Puppet(tgid) with every default argument.
DefaultFields == [username |-> NoneStr, displayname |-> NoneStr, custom_mxid |-> NoMxid]

\* The column values an instance writes on insert / save.
Values(p) == Row(p.username, p.displayname, p.custom_mxid)

Cache == [heap |-> heap, by_tgid |-> by_tgid, by_tgid_keys |-> by_tgid_keys,
          by_custom_mxid |-> by_custom_mxid]

\* dict assignment by_tgid[id] = p (a new key goes to the end of the order).
SetByTgid(c, id, p) ==
    [c EXCEPT !.by_tgid[id] = p,
              !.by_tgid_keys = IF c.by_tgid[id] = NoInst THEN Append(@, id) ELSE @]

\* The cache registration done by a constructor: by_tgid[id] = self, and
\* by_custom_mxid[custom_mxid] = self when the instance has a custom mxid.
Register(c, p) ==
    LET c1 == SetByTgid(c, c.heap[p].id, p)
    IN IF c.heap[p].custom_mxid /= NoMxid
       THEN [c1 EXCEPT !.by_custom_mxid[c.heap[p].custom_mxid] = p]
       ELSE c1

\* Puppet.__init__: allocate the instance, then register it in both maps.
PuppetInit(c, id, f) ==
    LET p == Len(c.heap) + 1
        c1 == [c EXCEPT !.heap = Append(@, [id |-> id, username |-> f.username,
                                            displayname |-> f.displayname,
                                            custom_mxid |-> f.custom_mxid])]
    IN Register(c1, p)

\* Puppet._add_to_cache
AddToCache(c, p) == Register(c, p)

\* DBPuppet._from_row: cls(**row), with cls the Puppet class.
FromRow(c, id, row) == PuppetInit(c, id, row)

SetCache(c) ==
    /\ heap' = c.heap
    /\ by_tgid' = c.by_tgid
    /\ by_tgid_keys' = c.by_tgid_keys
    /\ by_custom_mxid' = c.by_custom_mxid

IdleTask == [op |-> "none", pc |-> "idle", tgid |-> NoTgid, mxid |-> NoMxid,
             name |-> <<>>, create |-> FALSE, inst |-> NoInst, ret |-> NoInst,
             pending |-> <<>>, yielded |-> {}]

\* Tasks are created one after the other: task t makes its call once task t-1
\* has made its own (the tasks are interchangeable, so no behaviour is lost).
Idle(t) == tasks[t].pc = "idle" /\ (IF t = 1 THEN TRUE ELSE tasks[t - 1].pc /= "idle")

\* The calling task resumes with the call's return value.
Return(t, p) == [tasks[t] EXCEPT !.pc = "done", !.ret = p]

\* ------------------------------------------------------------------------
\* async_getter_lock: one asyncio.Lock per first argument of the getter.

\* Mutant: get_by_tgid without its per-key lock.
TgidLockFreeUnlocked(id) == TRUE

\* Mutant: one lock shared by every key instead of one lock per key.
TgidLockFreeShared(id) == lock_tgid = {}

TgidLockFree(id) == id \notin lock_tgid

MxidLockFree(m) == m \notin lock_mxid

\* ------------------------------------------------------------------------
\* Puppet.get_by_tgid

\* Take the lock and look the id up in by_tgid; a miss suspends in the store fetch.
GetByTgidEnter(t, id, create) ==
    /\ Idle(t)
    /\ TgidLockFree(id)
    /\ LET me == [tasks[t] EXCEPT !.op = "get_by_tgid", !.tgid = id, !.create = create]
       IN IF id = NoTgid
          THEN /\ tasks' = [tasks EXCEPT ![t] = [me EXCEPT !.pc = "done"]]
               /\ UNCHANGED lock_tgid
          ELSE IF by_tgid[id] /= NoInst
          THEN /\ tasks' = [tasks EXCEPT ![t] = [me EXCEPT !.pc = "done", !.ret = by_tgid[id]]]
               /\ UNCHANGED lock_tgid
          ELSE /\ tasks' = [tasks EXCEPT ![t] = [me EXCEPT !.pc = "fetch"]]
               /\ lock_tgid' = lock_tgid \cup {id}
    /\ UNCHANGED <<store, store0, heap, by_tgid, by_tgid_keys, by_custom_mxid,
                   lock_mxid, inserts>>

\* Mutant: get_by_tgid ignoring create=False.
ShouldCreateAlways(create) == TRUE

\* Whether get_by_tgid goes on to create a puppet when the store has no row.
ShouldCreate(create) == create

\* The store fetch returns: a row is loaded, cached and returned; without a row
\* a puppet is constructed and its insert issued (create), or None is returned.
GetByTgidFetched(t) ==
    /\ tasks[t].pc = "fetch"
    /\ tasks[t].op = "get_by_tgid"
    /\ LET id == tasks[t].tgid
           p == Len(heap) + 1
       IN IF store[id] /= NoRow
          THEN /\ SetCache(AddToCache(FromRow(Cache, id, store[id]), p))
               /\ tasks' = [tasks EXCEPT ![t] = Return(t, p)]
               /\ lock_tgid' = lock_tgid \ {id}
               /\ UNCHANGED inserts
          ELSE IF ShouldCreate(tasks[t].create)
          THEN /\ SetCache(PuppetInit(Cache, id, DefaultFields))
               /\ tasks' = [tasks EXCEPT ![t] = [@ EXCEPT !.pc = "insert", !.inst = p]]
               /\ inserts' = [inserts EXCEPT ![id] = @ + 1]
               /\ UNCHANGED lock_tgid
          ELSE /\ tasks' = [tasks EXCEPT ![t] = Return(t, NoInst)]
               /\ lock_tgid' = lock_tgid \ {id}
               /\ UNCHANGED <<heap, by_tgid, by_tgid_keys, by_custom_mxid, inserts>>
    /\ UNCHANGED <<store, store0, lock_mxid>>

\* The insert returns: the row exists from now on, the puppet is cached and
\* returned; a store error propagates to the caller (the lock is released).
GetByTgidInserted(t, ok) ==
    /\ tasks[t].pc = "insert"
    /\ LET id == tasks[t].tgid
           p == tasks[t].inst
       IN /\ lock_tgid' = lock_tgid \ {id}
          /\ IF ok
             THEN /\ store' = [store EXCEPT ![id] = Values(DefaultFields)]
                  /\ SetCache(AddToCache(Cache, p))
                  /\ tasks' = [tasks EXCEPT ![t] = Return(t, p)]
             ELSE /\ tasks' = [tasks EXCEPT ![t] = [@ EXCEPT !.pc = "raised"]]
                  /\ UNCHANGED <<store, heap, by_tgid, by_tgid_keys, by_custom_mxid>>
    /\ UNCHANGED <<store0, lock_mxid, inserts>>

\* ------------------------------------------------------------------------
\* Puppet.get_by_custom_mxid

GetByCustomMxidEnter(t, m) ==
    /\ Idle(t)
    /\ MxidLockFree(m)
    /\ LET me == [tasks[t] EXCEPT !.op = "get_by_custom_mxid", !.mxid = m]
       IN IF by_custom_mxid[m] /= NoInst
          THEN /\ tasks' = [tasks EXCEPT ![t] = [me EXCEPT !.pc = "done",
                                                          !.ret = by_custom_mxid[m]]]
               /\ UNCHANGED lock_mxid
          ELSE /\ tasks' = [tasks EXCEPT ![t] = [me EXCEPT !.pc = "fetch"]]
               /\ lock_mxid' = lock_mxid \cup {m}
    /\ UNCHANGED <<store, store0, heap, by_tgid, by_tgid_keys, by_custom_mxid,
                   lock_tgid, inserts>>

\* Account ids whose stored row has custom_mxid = m.
RowsWithMxid(m) == {id \in TgIds : store[id] /= NoRow /\ store[id].custom_mxid = m}

GetByCustomMxidFetched(t) ==
    /\ tasks[t].pc = "fetch"
    /\ tasks[t].op = "get_by_custom_mxid"
    /\ LET m == tasks[t].mxid
           p == Len(heap) + 1
       IN /\ lock_mxid' = lock_mxid \ {m}
          /\ IF RowsWithMxid(m) /= {}
             THEN \E id \in RowsWithMxid(m) :
                    /\ SetCache(AddToCache(FromRow(Cache, id, store[id]), p))
                    /\ tasks' = [tasks EXCEPT ![t] = Return(t, p)]
             ELSE /\ tasks' = [tasks EXCEPT ![t] = Return(t, NoInst)]
                  /\ UNCHANGED <<heap, by_tgid, by_tgid_keys, by_custom_mxid>>
    /\ UNCHANGED <<store, store0, lock_tgid, inserts>>

\* ------------------------------------------------------------------------
\* Puppet.find_by_username / Puppet.find_by_displayname

RECURSIVE ScanUsername(_, _)
\* for _, puppet in by_tgid.items(): the first puppet whose username, lowered,
\* is the (lowered) query; NoInst when the loop ends without a match.
ScanUsername(i, name) ==
    IF i > Len(by_tgid_keys) THEN NoInst
    ELSE LET p == by_tgid[by_tgid_keys[i]]
         IN IF Truthy(heap[p].username) /\ Lower(heap[p].username) = name
            THEN p ELSE ScanUsername(i + 1, name)

RECURSIVE ScanDisplayname(_, _)
ScanDisplayname(i, name) ==
    IF i > Len(by_tgid_keys) THEN NoInst
    ELSE LET p == by_tgid[by_tgid_keys[i]]
         IN IF Truthy(heap[p].displayname) /\ heap[p].displayname = name
            THEN p ELSE ScanDisplayname(i + 1, name)

\* SELECT ... WHERE lower(username)=$1, called with the lowered query.
RowsWithUsername(name) ==
    {id \in TgIds : /\ store[id] /= NoRow
                    /\ store[id].username /= NoneStr
                    /\ Lower(store[id].username) = Lower(name)}

\* SELECT ... WHERE displayname=$1
RowsWithDisplayname(name) ==
    {id \in TgIds : /\ store[id] /= NoRow
                    /\ store[id].displayname /= NoneStr
                    /\ store[id].displayname = name}

\* What find_by_* returns for the instance p it has just loaded from the row of
\* account id: by_tgid[id] when the key is present, else p after caching it.
ResolveLoaded(c, id, p) ==
    IF c.by_tgid[id] /= NoInst
    THEN [cache |-> c, ret |-> c.by_tgid[id]]
    ELSE [cache |-> AddToCache(c, p), ret |-> p]

FindEnter(t, op, query, name, hit) ==
    /\ Idle(t)
    /\ LET me == [tasks[t] EXCEPT !.op = op, !.name = name]
       IN IF ~Truthy(query)
          THEN tasks' = [tasks EXCEPT ![t] = [me EXCEPT !.pc = "done", !.name = <<>>]]
          ELSE IF hit /= NoInst
          THEN tasks' = [tasks EXCEPT ![t] = [me EXCEPT !.pc = "done", !.ret = hit]]
          ELSE tasks' = [tasks EXCEPT ![t] = [me EXCEPT !.pc = "fetch"]]
    /\ UNCHANGED <<store, store0, heap, by_tgid, by_tgid_keys, by_custom_mxid,
                   lock_tgid, lock_mxid, inserts>>

FindFetched(t, op, rows) ==
    /\ tasks[t].pc = "fetch"
    /\ tasks[t].op = op
    /\ IF rows /= {}
       THEN \E id \in rows :
              LET p == Len(heap) + 1
                  r == ResolveLoaded(FromRow(Cache, id, store[id]), id, p)
              IN /\ SetCache(r.cache)
                 /\ tasks' = [tasks EXCEPT ![t] = Return(t, r.ret)]
       ELSE /\ tasks' = [tasks EXCEPT ![t] = Return(t, NoInst)]
            /\ UNCHANGED <<heap, by_tgid, by_tgid_keys, by_custom_mxid>>
    /\ UNCHANGED <<store, store0, lock_tgid, lock_mxid, inserts>>

FindByUsernameEnter(t, username) ==
    FindEnter(t, "find_by_username", username, Lower(username),
              ScanUsername(1, Lower(username)))

FindByUsernameFetched(t) ==
    FindFetched(t, "find_by_username", RowsWithUsername(tasks[t].name))

FindByDisplaynameEnter(t, displayname) ==
    FindEnter(t, "find_by_displayname", displayname, displayname,
              ScanDisplayname(1, displayname))

FindByDisplaynameFetched(t) ==
    FindFetched(t, "find_by_displayname", RowsWithDisplayname(tasks[t].name))

\* ------------------------------------------------------------------------
\* Puppet.all_with_custom_mxid (an async generator)

\* SELECT ... WHERE custom_mxid<>''
RowsWithAnyMxid == {id \in TgIds : store[id] /= NoRow /\ store[id].custom_mxid /= NoMxid}

\* The orders in which the store may return a set of rows.
Orders(S) == {s \in [1..Cardinality(S) -> S] : \A i, j \in DOMAIN s : i /= j => s[i] /= s[j]}

RECURSIVE FromRows(_, _)
\* [cls._from_row(row) for row in rows]
FromRows(c, ids) ==
    IF ids = <<>> THEN c
    ELSE FromRows(FromRow(c, Head(ids), store[Head(ids)]), Tail(ids))

AllWithCustomMxidEnter(t) ==
    /\ Idle(t)
    /\ tasks' = [tasks EXCEPT ![t] = [@ EXCEPT !.op = "all_with_custom_mxid", !.pc = "fetch"]]
    /\ UNCHANGED <<store, store0, heap, by_tgid, by_tgid_keys, by_custom_mxid,
                   lock_tgid, lock_mxid, inserts>>

\* The fetch returns and every row is turned into an instance.
AllWithCustomMxidFetched(t) ==
    /\ tasks[t].pc = "fetch"
    /\ tasks[t].op = "all_with_custom_mxid"
    /\ \E ids \in Orders(RowsWithAnyMxid) :
         /\ SetCache(FromRows(Cache, ids))
         /\ tasks' = [tasks EXCEPT ![t] =
                [@ EXCEPT !.pc = IF ids = <<>> THEN "done" ELSE "yield",
                          !.pending = [i \in 1..Len(ids) |-> Len(heap) + i]]]
    /\ UNCHANGED <<store, store0, lock_tgid, lock_mxid, inserts>>

\* One iteration of the loop: yield by_tgid[puppet.tgid], or the loaded puppet
\* after caching it when the key is absent.
AllWithCustomMxidYield(t) ==
    /\ tasks[t].pc = "yield"
    /\ LET p == Head(tasks[t].pending)
           r == ResolveLoaded(Cache, heap[p].id, p)
       IN /\ SetCache(r.cache)
          /\ tasks' = [tasks EXCEPT ![t] =
                 [@ EXCEPT !.pending = Tail(@),
                           !.yielded = @ \cup {r.ret},
                           !.pc = IF Tail(tasks[t].pending) = <<>> THEN "done" ELSE "yield"]]
    /\ UNCHANGED <<store, store0, lock_tgid, lock_mxid, inserts>>

\* ------------------------------------------------------------------------
\* Puppet.update_info as the cache sees it: it rewrites username (and, through
\* update_displayname, displayname) of an instance in memory, and the save that
\* follows is a separate suspension point.  The reconciliation itself is
\* modelled by UpdateInfo below; here the display name it commits is any name.

\* No other update_info call is running on the instance (callers serialize).
Serialized(p) == \A u \in Tasks : ~(tasks[u].pc = "save" /\ tasks[u].inst = p)

CacheUpdateInfo(t, p, username, displayname) ==
    /\ Idle(t)
    /\ Serialized(p)
    /\ heap' = [heap EXCEPT ![p].username = username, ![p].displayname = displayname]
    /\ tasks' = [tasks EXCEPT ![t] =
           [@ EXCEPT !.op = "update_info", !.inst = p,
                     !.pc = IF heap'[p] /= heap[p] THEN "save" ELSE "done"]]
    /\ UNCHANGED <<store, store0, by_tgid, by_tgid_keys, by_custom_mxid,
                   lock_tgid, lock_mxid, inserts>>

\* DBPuppet.save: UPDATE puppet SET ... WHERE id=$1
CacheSaved(t) ==
    /\ tasks[t].pc = "save"
    /\ LET p == heap[tasks[t].inst]
       IN store' = [store EXCEPT ![p.id] = IF @ = NoRow THEN NoRow ELSE Values(p)]
    /\ tasks' = [tasks EXCEPT ![t] = [@ EXCEPT !.pc = "done"]]
    /\ UNCHANGED <<store0, heap, by_tgid, by_tgid_keys, by_custom_mxid,
                   lock_tgid, lock_mxid, inserts>>

\* ------------------------------------------------------------------------
\* The cache specifications

\* The rows the table may hold for an account id at process start.
StartRows(id) ==
    {NoRow,
     Row(NoneStr, NoneStr, NoMxid),
     Row(IF id = 1 THEN <<"B">> ELSE <<"b">>, <<"X">>, MxidOf(id))}

CacheInit ==
    /\ store \in {s \in [TgIds -> UNION {StartRows(id) : id \in TgIds}] :
                     \A id \in TgIds : s[id] \in StartRows(id)}
    /\ store0 = store
    /\ heap = <<>>
    /\ by_tgid = [id \in TgIds |-> NoInst]
    /\ by_tgid_keys = <<>>
    /\ by_custom_mxid = [m \in Mxids |-> NoInst]
    /\ lock_tgid = {}
    /\ lock_mxid = {}
    /\ tasks = [t \in Tasks |-> IdleTask]
    /\ inserts = [id \in TgIds |-> 0]

GetByTgid(t) ==
    \/ \E id \in TgIds \cup {NoTgid}, create \in BOOLEAN : GetByTgidEnter(t, id, create)
    \/ GetByTgidFetched(t)
    \/ \E ok \in BOOLEAN : GetByTgidInserted(t, ok)

GetByCustomMxid(t) ==
    \/ \E m \in Mxids : GetByCustomMxidEnter(t, m)
    \/ GetByCustomMxidFetched(t)

FindByUsername(t) ==
    \/ \E username \in CacheUsernames \cup {<<>>} : FindByUsernameEnter(t, username)
    \/ FindByUsernameFetched(t)

FindByDisplayname(t) ==
    \/ \E displayname \in CacheDisplaynames \cup {<<>>} : FindByDisplaynameEnter(t, displayname)
    \/ FindByDisplaynameFetched(t)

AllWithCustomMxid(t) ==
    \/ AllWithCustomMxidEnter(t)
    \/ AllWithCustomMxidFetched(t)
    \/ AllWithCustomMxidYield(t)

CacheUpdate(t) ==
    \/ \E p \in 1..Len(heap), username \in CacheUsernames \cup {NoneStr},
          displayname \in CacheDisplaynames \cup {<<>>} :
            CacheUpdateInfo(t, p, username, displayname)
    \/ CacheSaved(t)

NextGetters ==
    /\ \E t \in Tasks : GetByTgid(t) \/ GetByCustomMxid(t)
    /\ UNCHANGED updateVars

Next ==
    /\ \E t \in Tasks :
        \/ GetByTgid(t)
        \/ GetByCustomMxid(t)
        \/ FindByUsername(t)
        \/ FindByDisplayname(t)
        \/ AllWithCustomMxid(t)
        \/ CacheUpdate(t)
    /\ UNCHANGED updateVars

\* ========================================================================
\* Attribute reconciliation: one Puppet (self), its row and the presentation
\* layer.  Calls on one puppet are serialized by the callers, so each call is
\* one step; the outcome of every awaited external call is an input.

\* ------------------------------------------------------------------------
\* Puppet._filter_name

\* Characters of the strip set of _filter_name that occur in the model:
\* space, ZERO WIDTH SPACE, ZERO WIDTH NON-JOINER, ZERO WIDTH JOINER,
\* LEFT-TO-RIGHT MARK.
FilterWhitespace == {" ", "ZWSP", "ZWNJ", "ZWJ", "LRM"}

\* unicodedata.category(c) == "Cf" (SHY is SOFT HYPHEN, outside the strip set).
IsCf(c) == c \in {"ZWSP", "ZWNJ", "ZWJ", "LRM", "SHY"}

AllowedOtherFormat == {"ZWJ", "ZWNJ"}

RECURSIVE LStrip(_, _)
LStrip(s, chars) ==
    IF s /= <<>> /\ Head(s) \in chars THEN LStrip(Tail(s), chars) ELSE s

RECURSIVE RStrip(_, _)
RStrip(s, chars) ==
    IF s /= <<>> /\ s[Len(s)] \in chars THEN RStrip(SubSeq(s, 1, Len(s) - 1), chars) ELSE s

\* str.strip(chars)
Strip(s, chars) == RStrip(LStrip(s, chars), chars)

\* str.strip(): only the space is Python whitespace among the model's characters.
StripSpace(s) == Strip(s, {" "})

RECURSIVE DropFormat(_)
\* "".join(c for c in ... if category(c) != "Cf" or c in allowed_other_format)
DropFormat(s) ==
    IF s = <<>> THEN <<>>
    ELSE IF ~IsCf(Head(s)) \/ Head(s) \in AllowedOtherFormat
         THEN <<Head(s)>> \o DropFormat(Tail(s))
         ELSE DropFormat(Tail(s))

FilterName(name) ==
    IF ~Truthy(name) THEN <<>> ELSE DropFormat(Strip(name, FilterWhitespace))

\* ------------------------------------------------------------------------
\* Puppet.get_displayname

\* config["bridge.displayname_preference"]
Preferences == <<"full name", "username", "phone number">>

\* config["bridge.displayname_template"] = "{displayname} T": format_full
\* puts the name between the template's prefix and suffix.
TemplatePrefix == <<>>
TemplateSuffix == <<" ", "T">>
FormatFull(name) == TemplatePrefix \o name \o TemplateSuffix

\* config["bridge.displayname_max_length"]
DisplaynameMaxLength == 4

\* The account id of the puppet, and str(id).
SelfId == 1
StrOfId(id) == IF id = 1 THEN <<"1">> ELSE <<"2">>

DeletedAccount(id) ==
    <<"D", "e", "l", "e", "t", "e", "d", " ", "a", "c", "c", "o", "u", "n", "t", " ">>
    \o StrOfId(id)

\* " ".join([a, b]).strip()
JoinStrip(a, b) == StripSpace(a \o <<" ">> \o b)

\* The data dict of get_displayname.
NameData(info) ==
    LET fn == FilterName(info.first_name)
        ln == FilterName(info.last_name)
    IN [x \in {"phone number", "username", "full name", "full name reversed",
               "first name", "last name"} |->
            CASE x = "phone number" -> info.phone
              [] x = "username" -> info.username
              [] x = "full name" -> JoinStrip(fn, ln)
              [] x = "full name reversed" -> JoinStrip(ln, fn)
              [] x = "first name" -> fn
              [] x = "last name" -> ln]

RECURSIVE WalkPreferencesFlat(_, _, _, _)
\* Mutant: the loop without its quality -= 1.
WalkPreferencesFlat(data, prefs, name, quality) ==
    IF prefs = <<>> THEN [name |-> name, quality |-> quality]
    ELSE IF Truthy(data[Head(prefs)])
         THEN [name |-> data[Head(prefs)], quality |-> quality]
         ELSE WalkPreferencesFlat(data, Tail(prefs), data[Head(prefs)], quality)

RECURSIVE WalkPreferences(_, _, _, _)
\* The for loop over the preferences: the name and quality it ends with.
WalkPreferences(data, prefs, name, quality) ==
    IF prefs = <<>> THEN [name |-> name, quality |-> quality]
    ELSE IF Truthy(data[Head(prefs)])
         THEN [name |-> data[Head(prefs)], quality |-> quality]
         ELSE WalkPreferences(data, Tail(prefs), data[Head(prefs)], quality - 1)

\* Mutant: the deleted-account name is only a fallback, used when no preference
\* has a value.
GetDisplaynamePlainNoOverride(info, prefs) ==
    LET w == WalkPreferences(NameData(info), prefs, NoneStr, 99)
    IN IF Truthy(w.name) THEN w
       ELSE IF info.deleted
            THEN [name |-> DeletedAccount(info.id), quality |-> 99]
            ELSE [name |-> StrOfId(info.id), quality |-> 0]

\* get_displayname(info, enable_format=False): the name before the template.
GetDisplaynamePlain(info, prefs) ==
    LET w == WalkPreferences(NameData(info), prefs, NoneStr, 99)
    IN IF info.deleted
       THEN [name |-> DeletedAccount(info.id), quality |-> 99]
       ELSE IF ~Truthy(w.name)
            THEN [name |-> StrOfId(info.id), quality |-> 0]
            ELSE w

\* get_displayname(info): the name inside the display name template.
GetDisplayname(info, prefs) ==
    LET r == GetDisplaynamePlain(info, prefs)
    IN [name |-> FormatFull(r.name), quality |-> r.quality]

\* ------------------------------------------------------------------------
\* Puppet.update_displayname

\* Mutant: the per-puppet flag is never honoured.
DisableUpdatesIgnored(p) == FALSE

\* self.disable_updates, as update_info, update_displayname and update_avatar
\* test it before doing anything.
DisableUpdates(p) == p.disable_updates

\* A fresh Puppet(tgid): the constructor's defaults.
FreshPuppet(disable_updates) ==
    [displayname |-> NoneStr, displayname_source |-> NoTgid,
     displayname_contact |-> TRUE, displayname_quality |-> 0,
     disable_updates |-> disable_updates, username |-> NoneStr,
     photo_id |-> "<None>", is_bot |-> FALSE]

\* The bridge users whose client supplies the profile (au.AbstractUser).
Source(tgid, is_bot, is_relaybot) ==
    [tgid |-> tgid, is_bot |-> is_bot, is_relaybot |-> is_relaybot]
User5 == Source(5, FALSE, FALSE)
User6 == Source(6, FALSE, FALSE)
Relay7 == Source(7, FALSE, TRUE)
Bot8 == Source(8, TRUE, FALSE)

\* set_displayname was not called.
NoCall == <<"no call">>

\* Mutant: the chain of reasons without its final return False.
AllowBecauseAnyone(p, source, info) == "user has no name"

\* The source may update the name: the if/elif chain that ends in return False.
AllowBecause(p, source, info) ==
    IF source.is_relaybot \/ source.is_bot THEN "user is bot"
    ELSE IF p.displayname_source = source.tgid THEN "user is the primary source"
    ELSE IF ~info.is_update_user_name /\ ~info.contact THEN "user is not a contact"
    ELSE IF p.displayname_source = NoTgid THEN "no primary source set"
    ELSE IF ~Truthy(p.displayname) THEN "user has no name"
    ELSE "return False"

\* Mutant: a candidate of equal quality no longer overwrites.
OverwritesStrictlyBetter(displayname, quality, p) ==
    displayname /= p.displayname /\ quality > p.displayname_quality

\* Mutant: any different candidate overwrites, whatever its quality.
OverwritesAnyQuality(displayname, quality, p) == displayname /= p.displayname

\* displayname != self.displayname and quality >= self.displayname_quality
Overwrites(displayname, quality, p) ==
    displayname /= p.displayname /\ quality >= p.displayname_quality

\* displayname[: config["bridge.displayname_max_length"]]
Truncate(displayname) ==
    SubSeq(displayname, 1, IF Len(displayname) < DisplaynameMaxLength
                           THEN Len(displayname) ELSE DisplaynameMaxLength)

\* Mutant: the rollback clears the name but keeps its source and quality.
RollBackNameOnly(p) == [p EXCEPT !.displayname = <<>>]

\* The except MatrixError branch after a failed set_displayname.
RollBack(p) ==
    [p EXCEPT !.displayname = <<>>, !.displayname_source = NoTgid,
              !.displayname_quality = 0]

NameResult(p, changed, pushed, raised) ==
    [puppet |-> p, changed |-> changed, pushed |-> pushed, raised |-> raised]

\* The contact bookkeeping: displayname_contact afterwards.
ContactStep(p, info) ==
    IF ~info.contact THEN [p EXCEPT !.displayname_contact = FALSE]
    ELSE IF ~p.displayname_contact /\ ~Truthy(p.displayname)
         THEN [p EXCEPT !.displayname_contact = TRUE]
         ELSE p

\* Mutant: a contact profile is never held back.
ContactBlocksNever(p, info) == FALSE

\* ... and whether it ends the call with return False.
ContactBlocks(p, info) ==
    info.contact /\ ~p.displayname_contact /\ Truthy(p.displayname)

\* update_displayname(source, info) on puppet p, with the outcome of the
\* set_displayname call: "ok", "fail" (MatrixError) or "raise" (anything else).
\* For an UpdateUserName the info's profile fields are those get_entity returns.
UpdateDisplaynameResult(p, source, info, push) ==
    IF DisableUpdates(p) THEN NameResult(p, FALSE, NoCall, FALSE)
    ELSE IF AllowBecause(p, source, info) = "return False"
    THEN NameResult(p, FALSE, NoCall, FALSE)
    ELSE IF ContactBlocks(p, info) THEN NameResult(p, FALSE, NoCall, FALSE)
    ELSE LET p1 == ContactStep(p, info)
             dq == GetDisplayname(info, Preferences)
             p2 == [p1 EXCEPT !.displayname = dq.name,
                              !.displayname_source = source.tgid,
                              !.displayname_quality = dq.quality]
         IN IF Overwrites(dq.name, dq.quality, p1)
            THEN CASE push = "ok" -> NameResult(p2, TRUE, Truncate(dq.name), FALSE)
                   [] push = "fail" -> NameResult(RollBack(p2), TRUE, Truncate(dq.name), FALSE)
                   [] push = "raise" -> NameResult(p2, FALSE, Truncate(dq.name), TRUE)
            ELSE IF source.is_relaybot \/ p1.displayname_source = NoTgid
            THEN NameResult([p1 EXCEPT !.displayname_source = source.tgid], TRUE, NoCall, FALSE)
            ELSE NameResult(p1, FALSE, NoCall, FALSE)

\* ------------------------------------------------------------------------
\* Puppet.update_avatar

\* set_avatar_url was not called.
NoAvatarCall == "<no call>"

AvatarResult(p, changed, set_avatar, transferred, raised) ==
    [puppet |-> p, changed |-> changed, set_avatar |-> set_avatar,
     transferred |-> transferred, raised |-> raised]

\* Mutant: the avatar is removed whatever the configuration says.
RemoveRefusedNever(photo_id, allow) == FALSE

\* not photo_id and not config["bridge.allow_avatar_remove"]
RemoveRefused(photo_id, allow) == photo_id = "" /\ ~allow

\* Mutant: the except branch without its self.photo_id = "".
AvatarRollBackMissing(p) == p

\* The except MatrixError branch after a failed set_avatar_url.
AvatarRollBack(p) == [p EXCEPT !.photo_id = ""]

\* update_avatar(source, photo) on puppet p.  photo is "None", "Empty"
\* (UserProfilePhotoEmpty), "Other" (an unknown type) or the photo_id of a
\* UserProfilePhoto; transfer is what transfer_file_to_matrix does ("file",
\* "none", "raise"), setav what set_avatar_url does ("ok", "fail", "raise").
UpdateAvatarResult(p, photo, allow, transfer, setav) ==
    LET photo_id == IF photo \in {"None", "Empty"} THEN "" ELSE photo
        p1 == [p EXCEPT !.photo_id = photo_id]
    IN IF DisableUpdates(p) THEN AvatarResult(p, FALSE, NoAvatarCall, FALSE, FALSE)
       ELSE IF photo = "Other" THEN AvatarResult(p, FALSE, NoAvatarCall, FALSE, FALSE)
       ELSE IF RemoveRefused(photo_id, allow)
       THEN AvatarResult(p, FALSE, NoAvatarCall, FALSE, FALSE)
       ELSE IF p.photo_id = photo_id THEN AvatarResult(p, FALSE, NoAvatarCall, FALSE, FALSE)
       ELSE IF photo_id = ""
       THEN CASE setav = "ok" -> AvatarResult(p1, TRUE, "", FALSE, FALSE)
              [] setav = "fail" -> AvatarResult(AvatarRollBack(p1), TRUE, "", FALSE, FALSE)
              [] setav = "raise" -> AvatarResult(p1, FALSE, "", FALSE, TRUE)
       ELSE CASE transfer = "raise" -> AvatarResult(p, FALSE, NoAvatarCall, TRUE, TRUE)
              [] transfer = "none" -> AvatarResult(p, FALSE, NoAvatarCall, TRUE, FALSE)
              [] transfer = "file" ->
                   CASE setav = "ok" -> AvatarResult(p1, TRUE, photo_id, TRUE, FALSE)
                     [] setav = "fail" ->
                          AvatarResult(AvatarRollBack(p1), TRUE, photo_id, TRUE, FALSE)
                     [] setav = "raise" -> AvatarResult(p1, FALSE, photo_id, TRUE, TRUE)

\* ------------------------------------------------------------------------
\* The calls on the puppet

NoCallYet == [op |-> "none"]

\* A call on the puppet, seen from the cache, which it does not touch.
UpdateInit(disable_updates, allow) ==
    /\ puppet = FreshPuppet(disable_updates)
    /\ db_row = puppet
    /\ matrix_displayname = NoneStr
    /\ allow_avatar_remove = allow
    /\ call = NoCallYet

Init == CacheInit /\ UpdateInit(FALSE, FALSE)

\* The profile (telethon User) a source reports for the puppet's account.
Info(names, contact, bot, photo, is_update_user_name) ==
    [is_update_user_name |-> is_update_user_name, id |-> SelfId,
     first_name |-> names.first_name, last_name |-> names.last_name,
     username |-> names.username, phone |-> names.phone,
     deleted |-> names.deleted, contact |-> contact, bot |-> bot, photo |-> photo]

Names(first_name, last_name, username, phone, deleted) ==
    [first_name |-> first_name, last_name |-> last_name, username |-> username,
     phone |-> phone, deleted |-> deleted]

NamesA == Names(<<"A">>, <<>>, NoneStr, NoneStr, FALSE)
NamesCD == Names(<<" ", "C">>, <<"D", "ZWSP">>, <<"u">>, NoneStr, FALSE)
NamesU == Names(<<"ZWSP">>, NoneStr, <<"u">>, <<"+">>, FALSE)
NamesPhone == Names(NoneStr, NoneStr, NoneStr, <<"+">>, FALSE)
NamesEmpty == Names(<<>>, <<>>, NoneStr, NoneStr, FALSE)
NamesDeleted == Names(<<"A">>, <<>>, NoneStr, NoneStr, TRUE)

\* What the awaited set_displayname may do in this call: it is only called
\* when the name is overwritten.
PushOutcomes(p, source, info) ==
    IF UpdateDisplaynameResult(p, source, info, "ok").pushed /= NoCall
    THEN {"ok", "fail", "raise"} ELSE {"ok"}

\* What the awaited transfer_file_to_matrix and set_avatar_url may do.
TransferOutcomes(p, photo, allow) ==
    IF UpdateAvatarResult(p, photo, allow, "file", "ok").transferred
    THEN {"file", "none", "raise"} ELSE {"file"}

SetAvatarOutcomes(p, photo, allow, transfer) ==
    IF UpdateAvatarResult(p, photo, allow, transfer, "ok").set_avatar /= NoAvatarCall
    THEN {"ok", "fail", "raise"} ELSE {"ok"}

\* update_displayname(source, info), called by the bridge on its own.
UpdateDisplaynameCall(source, info) ==
    \E push \in PushOutcomes(puppet, source, info) :
    \E r \in {UpdateDisplaynameResult(puppet, source, info, push)} :
       /\ puppet' = r.puppet
       /\ matrix_displayname' = IF r.pushed /= NoCall /\ push = "ok"
                                THEN r.pushed ELSE matrix_displayname
       /\ call' = [op |-> "update_displayname", source |-> source, info |-> info,
                   pre |-> puppet, changed |-> r.changed, pushed |-> r.pushed,
                   push |-> push, raised |-> r.raised]
       /\ UNCHANGED <<db_row, allow_avatar_remove>>

\* update_avatar(source, photo), called by the bridge on its own.
UpdateAvatarCall(source, photo) ==
    \E transfer \in TransferOutcomes(puppet, photo, allow_avatar_remove) :
    \E setav \in SetAvatarOutcomes(puppet, photo, allow_avatar_remove, transfer) :
    \E r \in {UpdateAvatarResult(puppet, photo, allow_avatar_remove, transfer, setav)} :
       /\ puppet' = r.puppet
       /\ call' = [op |-> "update_avatar", source |-> source, photo |-> photo,
                   pre |-> puppet, changed |-> r.changed, set_avatar |-> r.set_avatar,
                   transferred |-> r.transferred, transfer |-> transfer,
                   setav |-> setav, raised |-> r.raised]
       /\ UNCHANGED <<db_row, matrix_displayname, allow_avatar_remove>>

\* Mutant: the avatar is updated in a try block of its own.
AvatarAttemptedAnyway(disable_updates, name_raised) == ~disable_updates

\* update_avatar is reached: updates are enabled and update_displayname, which
\* runs first in the same try block, did not raise.
AvatarAttempted(disable_updates, name_raised) == ~disable_updates /\ ~name_raised

\* changed, as update_info accumulates it.
Changed(username_changed, dn, av) == username_changed \/ dn.changed \/ av.changed

\* update_info(source, info): username, then (unless updates are disabled) the
\* display name and the avatar inside one try block, then is_bot, then one save
\* if anything reported a change.  The save itself is taken to succeed.
UpdateInfoCall(source, info) ==
    LET username_changed == puppet.username /= info.username
        p0 == [puppet EXCEPT !.username = info.username]
        name_attempted == ~DisableUpdates(p0)
    IN
    \E push \in PushOutcomes(p0, source, info) :
    \E dn \in {IF name_attempted
               THEN UpdateDisplaynameResult(p0, source, info, push)
               ELSE NameResult(p0, FALSE, NoCall, FALSE)} :
    \E avatar_attempted \in {AvatarAttempted(DisableUpdates(p0), dn.raised)} :
    \E transfer \in IF avatar_attempted
                    THEN TransferOutcomes(dn.puppet, info.photo, allow_avatar_remove)
                    ELSE {"file"} :
    \E setav \in IF avatar_attempted
                 THEN SetAvatarOutcomes(dn.puppet, info.photo, allow_avatar_remove, transfer)
                 ELSE {"ok"} :
    \E av \in {IF avatar_attempted
               THEN UpdateAvatarResult(dn.puppet, info.photo, allow_avatar_remove,
                                       transfer, setav)
               ELSE AvatarResult(dn.puppet, FALSE, NoAvatarCall, FALSE, FALSE)} :
    \E changed \in {Changed(username_changed, dn, av)} :
    \E p3 \in {[av.puppet EXCEPT !.is_bot = info.bot]} :
       /\ puppet' = p3
       /\ db_row' = IF changed THEN p3 ELSE db_row
       /\ matrix_displayname' = IF dn.pushed /= NoCall /\ push = "ok"
                                THEN dn.pushed ELSE matrix_displayname
       /\ call' = [op |-> "update_info", source |-> source, info |-> info,
                   name_attempted |-> name_attempted,
                   name_changed |-> dn.changed, pushed |-> dn.pushed,
                   name_raised |-> dn.raised,
                   avatar_attempted |-> avatar_attempted,
                   avatar_changed |-> av.changed, set_avatar |-> av.set_avatar,
                   transferred |-> av.transferred, avatar_raised |-> av.raised,
                   push |-> push, transfer |-> transfer, setav |-> setav,
                   saved |-> changed,
                   ok |-> push = "ok" /\ transfer = "file" /\ setav = "ok",
                   repeat |-> IF call.op = "update_info"
                              THEN call.source = source /\ call.info = info /\ call.ok
                              ELSE FALSE]
       /\ UNCHANGED allow_avatar_remove

\* The start of the reconciliation specifications: a freshly created puppet,
\* with or without updates disabled; the cache is left alone.
CacheIdle ==
    /\ store = [id \in TgIds |-> NoRow]
    /\ store0 = store
    /\ heap = <<>>
    /\ by_tgid = [id \in TgIds |-> NoInst]
    /\ by_tgid_keys = <<>>
    /\ by_custom_mxid = [m \in Mxids |-> NoInst]
    /\ lock_tgid = {}
    /\ lock_mxid = {}
    /\ tasks = [t \in Tasks |-> IdleTask]
    /\ inserts = [id \in TgIds |-> 0]

InitDisplayname ==
    /\ CacheIdle
    /\ \E disable_updates \in BOOLEAN : UpdateInit(disable_updates, FALSE)

\* ... under either setting of bridge.allow_avatar_remove.
InitUpdate ==
    /\ CacheIdle
    /\ \E disable_updates \in BOOLEAN, allow \in BOOLEAN :
           UpdateInit(disable_updates, allow)

DisplaynameSources == {User5, User6, Relay7, Bot8}
DisplaynameInfos ==
    {Info(n, c[1], FALSE, "None", c[2]) :
        n \in {NamesA, NamesCD, NamesU, NamesEmpty},
        c \in {<<FALSE, FALSE>>, <<TRUE, FALSE>>, <<FALSE, TRUE>>}}

NextDisplayname ==
    /\ \E source \in DisplaynameSources, info \in DisplaynameInfos :
            UpdateDisplaynameCall(source, info)
    /\ UNCHANGED cacheVars

Photos == {"None", "Empty", "Other", "101", "102"}

NextAvatar ==
    /\ \E source \in {User5, Relay7}, photo \in Photos : UpdateAvatarCall(source, photo)
    /\ UNCHANGED cacheVars

InfoSources == {User5, Relay7}
InfoInfos ==
    {Info(n, contact, bot, photo, FALSE) :
        n \in {NamesA, NamesU}, contact \in BOOLEAN, bot \in BOOLEAN,
        photo \in {"Empty", "101"}}

NextInfo ==
    /\ \E source \in InfoSources, info \in InfoInfos : UpdateInfoCall(source, info)
    /\ UNCHANGED cacheVars

\* ------------------------------------------------------------------------
\* The name resolver on its own: get_displayname and _filter_name are pure, so
\* a call records its arguments and its result and leaves the puppet alone.

\* Longest preference list and longest raw name the resolver is called with.
MaxPrefs == 2
MaxNameLen == 3

\* The keys of the data dict, which bridge.displayname_preference draws from.
PreferenceKinds == {"phone number", "username", "full name", "full name reversed",
                    "first name", "last name"}

PreferenceLists == UNION {[1..n -> PreferenceKinds] : n \in 0..MaxPrefs}

\* Profiles of the accounts 1 and 2, deleted or not.
ResolverInfos ==
    {[Info(Names(fn, ln, un, ph, deleted), FALSE, FALSE, "None", FALSE) EXCEPT !.id = id] :
        fn \in {<<>>, <<"A">>, <<"ZWSP">>}, ln \in {NoneStr, <<"D">>},
        un \in {NoneStr, <<"u">>}, ph \in {NoneStr, <<"+">>},
        deleted \in BOOLEAN, id \in TgIds}

\* Characters of raw names: a letter, the space, and format characters inside
\* and outside the strip set.
NameChars == {"A", " ", "ZWSP", "ZWNJ", "ZWJ", "LRM", "SHY"}

RawNames == UNION {[1..n -> NameChars] : n \in 0..MaxNameLen}

\* The resolver calls about to be made, with their arguments.
PendingNameCalls ==
    {[op |-> "call get_displayname", info |-> info, prefs |-> prefs,
      enable_format |-> enable_format] :
        info \in ResolverInfos, prefs \in PreferenceLists, enable_format \in BOOLEAN}
    \cup {[op |-> "call _filter_name", name |-> name] : name \in RawNames \cup {NoneStr}}

InitNames ==
    /\ CacheIdle
    /\ puppet = FreshPuppet(FALSE)
    /\ db_row = puppet
    /\ matrix_displayname = NoneStr
    /\ allow_avatar_remove = FALSE
    /\ call \in PendingNameCalls

GetDisplaynameCall ==
    /\ call.op = "call get_displayname"
    /\ \E r \in {IF call.enable_format THEN GetDisplayname(call.info, call.prefs)
                                        ELSE GetDisplaynamePlain(call.info, call.prefs)} :
          call' = [op |-> "get_displayname", info |-> call.info, prefs |-> call.prefs,
                   enable_format |-> call.enable_format,
                   name |-> r.name, quality |-> r.quality]
    /\ UNCHANGED <<puppet, db_row, matrix_displayname, allow_avatar_remove>>

FilterNameCall ==
    /\ call.op = "call _filter_name"
    /\ call' = [op |-> "_filter_name", name |-> call.name, result |-> FilterName(call.name)]
    /\ UNCHANGED <<puppet, db_row, matrix_displayname, allow_avatar_remove>>

NextNames ==
    /\ GetDisplaynameCall \/ FilterNameCall
    /\ UNCHANGED cacheVars

\* update_info and update_displayname calls on one puppet, in any order.
ReconcileSources == {User5, Relay7}
ReconcileInfos ==
    {Info(n, contact, FALSE, "Empty", FALSE) :
        n \in {NamesA, NamesCD, NamesU}, contact \in BOOLEAN}

NextReconcile ==
    /\ \E source \in ReconcileSources, info \in ReconcileInfos :
            \/ UpdateDisplaynameCall(source, info)
            \/ UpdateInfoCall(source, info)
    /\ UNCHANGED cacheVars

\* Every lookup path of the cache, with update_info calls rewriting cached puppets.
Spec == Init /\ [][Next]_vars

\* Concurrent get_by_tgid / get_by_custom_mxid calls alone.
SpecGetters == Init /\ [][NextGetters]_vars

\* Serialized update_displayname calls on one puppet.
SpecDisplayname == InitDisplayname /\ [][NextDisplayname]_vars

\* Serialized update_avatar calls on one puppet.
SpecAvatar == InitUpdate /\ [][NextAvatar]_vars

\* Serialized update_info calls on one puppet.
SpecInfo == InitUpdate /\ [][NextInfo]_vars

\* Serialized update_info and update_displayname calls on one puppet.
SpecReconcile == InitDisplayname /\ [][NextReconcile]_vars

\* Calls of the name resolver.
SpecNames == InitNames /\ [][NextNames]_vars

\* ------------------------------------------------------------------------
\* Claims about the identity cache

\* Task t's call has returned a puppet.
Returned(t) == tasks[t].pc = "done" /\ tasks[t].ret /= NoInst

GotByTgid(t, id) == tasks[t].op = "get_by_tgid" /\ tasks[t].tgid = id /\ Returned(t)

\* C1: for an account id that was neither cached nor stored, however the
\* get_by_tgid calls for it interleave at the store fetch and the store insert,
\* at most one insert is ever issued, every call that returned a puppet
\* returned the same instance, and once a create=True call has returned it
\* returned a puppet and exactly one insert was issued.
CoalescedConstruction ==
    \A id \in TgIds :
        store0[id] = NoRow =>
            /\ inserts[id] <= 1
            /\ \A t, u \in Tasks :
                   (GotByTgid(t, id) /\ GotByTgid(u, id)) => tasks[t].ret = tasks[u].ret
            /\ \A t \in Tasks :
                   (/\ tasks[t].op = "get_by_tgid"
                    /\ tasks[t].tgid = id
                    /\ tasks[t].create
                    /\ tasks[t].pc = "done")
                   => (tasks[t].ret /= NoInst /\ inserts[id] = 1)

\* Every task called get_by_tgid(id, create=True) for the same fresh id, and
\* all of them have returned.
CoalescedConstructionWitness ==
    \E id \in TgIds :
        /\ store0[id] = NoRow
        /\ \A t \in Tasks : GotByTgid(t, id) /\ tasks[t].create

\* Task t is resuming from a store query of one of the find_by_* methods.
FindResumes(t) ==
    /\ tasks[t].op \in {"find_by_username", "find_by_displayname"}
    /\ tasks[t].pc = "fetch"
    /\ tasks'[t].pc = "done"

\* C2: when a find_by_username / find_by_displayname call misses the cache
\* scan and its store query returns the row of an account id that is already
\* cached, the call returns the instance by_tgid held before, and by_tgid
\* still holds that instance afterwards.
FindKeepsCachedInstance ==
    [][\A t \in Tasks :
          (/\ FindResumes(t)
           /\ tasks'[t].ret /= NoInst
           /\ by_tgid[heap'[tasks'[t].ret].id] /= NoInst)
          => LET id == heap'[tasks'[t].ret].id
             IN tasks'[t].ret = by_tgid[id] /\ by_tgid'[id] = by_tgid[id]]_vars

\* C3: once by_tgid[id] refers to an instance it never refers to another one,
\* and any two calls that returned a puppet for the same account id returned
\* the same instance.
OneInstancePerTgid ==
    [][/\ \A id \in TgIds : by_tgid[id] /= NoInst => by_tgid'[id] = by_tgid[id]
       /\ \A t, u \in Tasks :
              (/\ tasks'[t].pc = "done" /\ tasks'[t].ret /= NoInst
               /\ tasks'[u].pc = "done" /\ tasks'[u].ret /= NoInst
               /\ heap'[tasks'[t].ret].id = heap'[tasks'[u].ret].id)
              => tasks'[t].ret = tasks'[u].ret]_vars

\* Task t's getter is resuming from a store fetch that found no record, in a
\* call that must not create one.
NotFoundResumes(t) ==
    /\ tasks[t].pc = "fetch"
    /\ \/ /\ tasks[t].op = "get_by_tgid"
          /\ ~tasks[t].create
          /\ store[tasks[t].tgid] = NoRow
       \/ /\ tasks[t].op = "get_by_custom_mxid"
          /\ RowsWithMxid(tasks[t].mxid) = {}

\* C10: a get_by_tgid(id, create=False) whose id has no cached instance and no
\* stored record, and a get_by_custom_mxid(mxid) whose mxid has no stored
\* record, return None without raising, issue no insert, construct nothing and
\* leave by_tgid and by_custom_mxid as they were.
SoftNotFound ==
    [][\A t \in Tasks :
          (NotFoundResumes(t) /\ tasks'[t] /= tasks[t])
          => /\ tasks'[t].pc = "done"
             /\ tasks'[t].ret = NoInst
             /\ inserts' = inserts
             /\ store' = store
             /\ heap' = heap
             /\ by_tgid' = by_tgid
             /\ by_custom_mxid' = by_custom_mxid]_vars

\* Both kinds of call have come back with None.
SoftNotFoundWitness ==
    \E t, u \in Tasks :
        /\ tasks[t].op = "get_by_tgid" /\ tasks[t].tgid /= NoTgid /\ ~tasks[t].create
        /\ tasks[t].pc = "done" /\ tasks[t].ret = NoInst
        /\ store[tasks[t].tgid] = NoRow
        /\ tasks[u].op = "get_by_custom_mxid"
        /\ tasks[u].pc = "done" /\ tasks[u].ret = NoInst

\* ------------------------------------------------------------------------
\* Claims about the reconciliation

\* The last call was update_displayname and it got past the eligibility and
\* contact checks.
PassedChecks ==
    /\ call.op = "update_displayname"
    /\ ~call.pre.disable_updates
    /\ AllowBecause(call.pre, call.source, call.info) /= "return False"
    /\ ~ContactBlocks(call.pre, call.info)

\* The candidate name and quality the last call resolved.
Candidate == GetDisplayname(call.info, Preferences)

\* C4: an update_displayname call that passes the eligibility and contact
\* checks overwrites the name (calls set_displayname with the candidate, and
\* unless that call fails ends with the candidate as displayname, its quality
\* and the source as source) exactly when the candidate differs from the
\* current name and its quality is >= the stored quality; otherwise displayname
\* and displayname_quality stay as they were.
QualityGate ==
    PassedChecks =>
        LET wins == /\ Candidate.name /= call.pre.displayname
                    /\ Candidate.quality >= call.pre.displayname_quality
        IN /\ (call.pushed /= NoCall) <=> wins
           /\ (wins /\ call.push /= "fail") =>
                  /\ puppet.displayname = Candidate.name
                  /\ puppet.displayname_quality = Candidate.quality
                  /\ puppet.displayname_source = call.source.tgid
                  /\ call.pushed = Truncate(Candidate.name)
           /\ ~wins =>
                  /\ puppet.displayname = call.pre.displayname
                  /\ puppet.displayname_quality = call.pre.displayname_quality

\* A different candidate of equal quality has replaced a name.
QualityGateWitness ==
    /\ PassedChecks
    /\ Truthy(call.pre.displayname)
    /\ call.pre.displayname_quality = Candidate.quality
    /\ call.pre.displayname /= Candidate.name
    /\ puppet.displayname = Candidate.name

\* C5: when update_info's display-name update commits a name and
\* set_displayname fails with a MatrixError, the call ends with displayname "",
\* no displayname_source and quality 0, the sub-update reports changed, and
\* the save update_info issues writes that rolled-back state to the row.
RollbackOnSyncFailure ==
    (call.op = "update_info" /\ call.pushed /= NoCall /\ call.push = "fail") =>
        /\ puppet.displayname = <<>>
        /\ puppet.displayname_source = NoTgid
        /\ puppet.displayname_quality = 0
        /\ call.name_changed
        /\ call.saved
        /\ db_row = puppet

RollbackOnSyncFailureWitness ==
    /\ call.op = "update_info"
    /\ call.pushed /= NoCall
    /\ call.push = "fail"
    /\ db_row.displayname = <<>>

\* The last update_displayname call changed nothing, called nothing and
\* reported no change.
DisplaynameNoOp == puppet = call.pre /\ call.pushed = NoCall /\ ~call.changed

\* The eligibility conditions (a)-(e) as the claim lists them.
EligibleAsClaimed(p, source, info) ==
    \/ source.is_relaybot \/ source.is_bot
    \/ p.displayname_source = source.tgid
    \/ info.contact
    \/ p.displayname_source = NoTgid
    \/ ~Truthy(p.displayname)

\* C6 as stated: when none of (a) bot/relay source, (b) source of record,
\* (c) profile marks a contact, (d) no source set, (e) no name set holds, the
\* update_displayname call is a no-op.
EligibilityAsClaimed ==
    (call.op = "update_displayname"
     /\ ~EligibleAsClaimed(call.pre, call.source, call.info)) => DisplaynameNoOp

\* The conditions with (c) read as: the info is a full profile (not a
\* username-change event) that marks the subject as not a contact.
EligibleNonContact(p, source, info) ==
    \/ source.is_relaybot \/ source.is_bot
    \/ p.displayname_source = source.tgid
    \/ (~info.is_update_user_name /\ ~info.contact)
    \/ p.displayname_source = NoTgid
    \/ ~Truthy(p.displayname)

\* C6 amended: when none of (a) bot/relay source, (b) source of record,
\* (c) full profile marking the subject as NOT a contact, (d) no source set,
\* (e) no name set holds, the update_displayname call is a no-op: no field
\* changes, set_displayname is not called, and it reports not changed.
Eligibility ==
    (call.op = "update_displayname"
     /\ ~EligibleNonContact(call.pre, call.source, call.info)) => DisplaynameNoOp

\* An ineligible source called update_displayname on a puppet with updates on.
EligibilityWitness ==
    /\ call.op = "update_displayname"
    /\ ~call.pre.disable_updates
    /\ ~EligibleNonContact(call.pre, call.source, call.info)

\* C7: when the display-name sub-update of update_info raises, the avatar
\* sub-update is still attempted in the same call.
SubUpdateIsolation ==
    (call.op = "update_info" /\ call.name_raised) => call.avatar_attempted

\* C8: an update_info call that repeats the previous call (same source, same
\* profile), every external call of both succeeding, calls neither
\* set_displayname nor set_avatar_url nor the content transfer and does not save.
Idempotence ==
    (call.op = "update_info" /\ call.repeat /\ call.ok) =>
        /\ call.pushed = NoCall
        /\ call.set_avatar = NoAvatarCall
        /\ ~call.transferred
        /\ ~call.saved

\* C9: with allow_avatar_remove off, update_avatar with an absent or empty
\* photo changes no field, calls neither the transfer nor set_avatar_url and
\* reports not changed, whatever photo_id is.
AvatarRemoveGate ==
    (call.op = "update_avatar" /\ ~allow_avatar_remove
     /\ call.photo \in {"None", "Empty"}) =>
        /\ puppet = call.pre
        /\ call.set_avatar = NoAvatarCall
        /\ ~call.transferred
        /\ ~call.changed

\* The gate kept a photo that was set.
AvatarRemoveGateWitness ==
    /\ call.op = "update_avatar"
    /\ ~allow_avatar_remove
    /\ ~call.pre.disable_updates
    /\ call.photo \in {"None", "Empty"}
    /\ call.pre.photo_id = "101"
    /\ puppet.photo_id = "101"

\* ------------------------------------------------------------------------
\* Per-key locking

\* Task t is suspended inside get_by_tgid(a), in the store fetch or the store
\* insert, holding the lock of a.
SuspendedOn(t, a) ==
    /\ tasks[t].op = "get_by_tgid"
    /\ tasks[t].tgid = a
    /\ tasks[t].pc \in {"fetch", "insert"}

\* C11: while a get_by_tgid(a) call is suspended in its store fetch or insert
\* holding the lock of a, a get_by_tgid(b) call for another id b can take every
\* one of its steps: it can enter (unless a call for b itself holds b's lock),
\* its fetch can return and its insert can return, none of them waiting for
\* the call on a.
DifferentKeysIndependent ==
    \A t, u \in Tasks : \A a, b \in TgIds :
        (t /= u /\ a /= b /\ SuspendedOn(t, a)) =>
            /\ (Idle(u) /\ ~(\E v \in Tasks : SuspendedOn(v, b)))
                   => ENABLED GetByTgidEnter(u, b, TRUE)
            /\ (SuspendedOn(u, b) /\ tasks[u].pc = "fetch")
                   => ENABLED GetByTgidFetched(u)
            /\ (SuspendedOn(u, b) /\ tasks[u].pc = "insert")
                   => ENABLED GetByTgidInserted(u, TRUE)

\* Task 1 is still suspended in the insert of one id while task 2, which
\* started after it, has created and returned the puppet of the other id.
DifferentKeysIndependentWitness ==
    \E a, b \in TgIds :
        /\ a /= b
        /\ SuspendedOn(1, a)
        /\ tasks[1].pc = "insert"
        /\ GotByTgid(2, b)
        /\ tasks[3].pc = "idle"
        /\ store0[b] = NoRow
        /\ store[b] /= NoRow

\* ------------------------------------------------------------------------
\* Claims about the name resolver

\* The optional template around a resolved name.
Formatted(enable_format, name) == IF enable_format THEN FormatFull(name) ELSE name

\* C12: for every profile flagged deleted and every preference list (empty,
\* or with a first preference that has a value), get_displayname resolves the
\* name to exactly "Deleted account <id>" (which the display name template
\* then wraps unless enable_format is off) with quality 99.
DeletedAccountOverride ==
    (call.op = "get_displayname" /\ call.info.deleted) =>
        /\ call.name = Formatted(call.enable_format, DeletedAccount(call.info.id))
        /\ call.quality = 99

\* A deleted profile was resolved, without the template, under a list whose
\* first preference has a value.
DeletedAccountOverrideWitness ==
    /\ call.op = "get_displayname"
    /\ call.info.deleted
    /\ ~call.enable_format
    /\ call.prefs /= <<>>
    /\ Truthy(NameData(call.info)[call.prefs[1]])
    /\ call.name = DeletedAccount(call.info.id)

\* The positions of the preference list whose value is non-empty.
NonEmptyAt(info, prefs) == {i \in 1..Len(prefs) : Truthy(NameData(info)[prefs[i]])}

First(S) == CHOOSE i \in S : \A j \in S : i <= j

\* C13: for a profile that is not deleted, get_displayname returns the value
\* of the first preference whose value is non-empty with quality 99 minus the
\* number of preferences before it; when no preference has a non-empty value
\* it returns str(id) with quality 0; the quality is always within 0..99.
QualityRanking ==
    (call.op = "get_displayname" /\ ~call.info.deleted) =>
        LET S == NonEmptyAt(call.info, call.prefs)
        IN /\ IF S = {}
              THEN /\ call.name = Formatted(call.enable_format, StrOfId(call.info.id))
                   /\ call.quality = 0
              ELSE /\ call.name = Formatted(call.enable_format,
                                            NameData(call.info)[call.prefs[First(S)]])
                   /\ call.quality = 99 - (First(S) - 1)
           /\ call.quality \in 0..99

\* The second preference won after the first was skipped.
QualityRankingWitness ==
    /\ call.op = "get_displayname"
    /\ ~call.info.deleted
    /\ NonEmptyAt(call.info, call.prefs) /= {}
    /\ First(NonEmptyAt(call.info, call.prefs)) = 2
    /\ call.quality = 98

RECURSIVE Joiners(_)
\* The zero-width joiners and non-joiners of a name, in order.
Joiners(s) ==
    IF s = <<>> THEN <<>>
    ELSE IF Head(s) \in {"ZWJ", "ZWNJ"} THEN <<Head(s)>> \o Joiners(Tail(s))
         ELSE Joiners(Tail(s))

\* C14: _filter_name retains every zero-width joiner and non-joiner of its
\* input, at the start and at the end of the name as well.
JoinersRetained ==
    (call.op = "_filter_name" /\ Truthy(call.name)) =>
        Joiners(call.result) = Joiners(call.name)

\* ------------------------------------------------------------------------
\* Claims about persistence in update_info

\* C15: an update_info call whose external calls all succeed ends with the
\* durable row equal to the in-memory fields: whenever it changed username,
\* displayname, displayname_source, displayname_quality, displayname_contact,
\* photo_id or is_bot it issued the save.
PersistsIfChanged ==
    (call.op = "update_info" /\ call.ok) => db_row = puppet

\* ------------------------------------------------------------------------
\* Claims about creation in get_by_tgid

\* C16: every instance reachable through by_tgid has a durable row with its
\* id, in every state: also while the insert of a freshly constructed puppet
\* is suspended, and after that insert has failed.
PersistBeforeCache ==
    \A id \in TgIds : by_tgid[id] /= NoInst => store[id] /= NoRow

\* ------------------------------------------------------------------------
\* Claims about the steps of update_displayname

\* The last call was an update_displayname call, with updates enabled, that
\* passed the chain of allow_because reasons.
EligibleCall ==
    /\ call.op = "update_displayname"
    /\ ~call.pre.disable_updates
    /\ AllowBecause(call.pre, call.source, call.info) /= "return False"

\* C17: in an eligible update_displayname call, a profile that is not a
\* contact leaves displayname_contact false; a contact profile met with
\* displayname_contact false proceeds to the name comparison, setting
\* displayname_contact back to true, only when the puppet has no display
\* name, and otherwise the call changes nothing (displayname,
\* displayname_source and displayname_quality included), does not call
\* set_displayname and reports not changed.
ContactTracking ==
    EligibleCall =>
        /\ ~call.info.contact => ~puppet.displayname_contact
        /\ (call.info.contact /\ ~call.pre.displayname_contact) =>
               IF ~Truthy(call.pre.displayname)
               THEN /\ puppet.displayname_contact
                    /\ (call.pushed /= NoCall) <=>
                           Overwrites(Candidate.name, Candidate.quality, call.pre)
               ELSE /\ puppet = call.pre
                    /\ call.pushed = NoCall
                    /\ ~call.changed

\* A contact profile whose name would have replaced the current one was held
\* back because the puppet is marked as named by a non-contact profile.
ContactTrackingWitness ==
    /\ EligibleCall
    /\ call.info.contact
    /\ ~call.pre.displayname_contact
    /\ Truthy(call.pre.displayname)
    /\ Overwrites(Candidate.name, Candidate.quality, call.pre)
    /\ puppet = call.pre

\* The last call reached the name comparison and did not overwrite the name.
NotOverwritten ==
    /\ EligibleCall
    /\ ~ContactBlocks(call.pre, call.info)
    /\ ~Overwrites(Candidate.name, Candidate.quality, call.pre)

\* C18: an eligible update_displayname call that does not overwrite the name
\* sets displayname_source to the source's id, leaving displayname and
\* displayname_quality alone, calling nothing and reporting changed, when the
\* source is a bot or relay identity or no displayname_source is set; in every
\* other case it reports not changed and changes none of the three fields.
SourceStamping ==
    NotOverwritten =>
        /\ puppet.displayname = call.pre.displayname
        /\ puppet.displayname_quality = call.pre.displayname_quality
        /\ call.pushed = NoCall
        /\ IF \/ call.source.is_relaybot
              \/ call.source.is_bot
              \/ call.pre.displayname_source = NoTgid
           THEN puppet.displayname_source = call.source.tgid /\ call.changed
           ELSE puppet.displayname_source = call.pre.displayname_source /\ ~call.changed

\* C19: over serialized update_info / update_displayname calls on one puppet,
\* a step that changes displayname to a non-empty value leaves
\* displayname_quality at least what it was, and displayname_quality
\* decreases only in a step whose set_displayname call failed, where it
\* becomes 0 together with displayname "" and no displayname_source.
QualityMonotone ==
    [][/\ (puppet'.displayname /= puppet.displayname /\ Truthy(puppet'.displayname))
           => puppet'.displayname_quality >= puppet.displayname_quality
       /\ puppet'.displayname_quality < puppet.displayname_quality
           => /\ call'.pushed /= NoCall
              /\ call'.push = "fail"
              /\ puppet'.displayname_quality = 0
              /\ puppet'.displayname = <<>>
              /\ puppet'.displayname_source = NoTgid]_vars

\* A failed set_displayname took a positive quality back to 0.
QualityMonotoneWitness ==
    /\ call.op = "update_displayname"
    /\ call.push = "fail"
    /\ call.pushed /= NoCall
    /\ call.pre.displayname_quality > 0
    /\ puppet.displayname_quality = 0

\* ------------------------------------------------------------------------
\* Claims about update_avatar

\* The photo id update_avatar derives from the photo it is given.
NewPhotoId == IF call.photo \in {"None", "Empty"} THEN "" ELSE call.photo

\* The last call was an update_avatar call that got past the early returns
\* with a photo id different from the stored one, and returned.
AvatarDiffers ==
    /\ call.op = "update_avatar"
    /\ ~call.pre.disable_updates
    /\ call.photo /= "Other"
    /\ ~RemoveRefused(NewPhotoId, allow_avatar_remove)
    /\ call.pre.photo_id /= NewPhotoId
    /\ ~call.raised

UpdatesDisabledFrame ==
    [][(puppet.disable_updates /\ call'.op = "update_info") =>
          /\ puppet' = [puppet EXCEPT !.username = puppet'.username,
                                      !.is_bot = puppet'.is_bot]
          /\ puppet'.username = call'.info.username
          /\ puppet'.is_bot = call'.info.bot
          /\ call'.pushed = NoCall
          /\ call'.set_avatar = NoAvatarCall
          /\ ~call'.transferred
          /\ matrix_displayname' = matrix_displayname
          /\ call'.saved <=> (puppet'.username /= puppet.username)
          /\ db_row' = IF call'.saved THEN puppet' ELSE db_row]_vars

\* A puppet with updates disabled took a new username and was saved, with a
\* profile that carries a name and a photo.
UpdatesDisabledFrameWitness ==
    /\ puppet.disable_updates
    /\ call.op = "update_info"
    /\ call.saved
    /\ puppet.username = <<"u">>
    /\ call.info.photo = "101"
    /\ puppet.displayname = NoneStr
    /\ puppet.photo_id = "<None>"
    /\ db_row = puppet

\* C22: after any sequence of serialized update_displayname calls, whatever
\* their set_displayname calls did, a non-empty local displayname is the name
\* the presentation layer last accepted: matrix_displayname equals displayname
\* cut to bridge.displayname_max_length.
NameConsistency ==
    Truthy(puppet.displayname) => matrix_displayname = Truncate(puppet.displayname)

====
